---------------------------- MODULE Spec2Model ----------------------------
(***************************************************************************)
(* Model of the servers of Finetuned-GameAI-Coach:                         *)
(*   game_event_microservice/ai_bridge_fastapi.py  (HTTP gateway)          *)
(*   game_event_microservice/ai_bridge.py          (stream gateway)        *)
(*   ai_model_server.py                            (suggestion server)     *)
(* The two gateways keep the same module-level state (SESSION_FOLDER,      *)
(* screenshot_counter, a persister queue, the index db); the suggestion    *)
(* server keeps MODEL_LOADED only.  `server` says which of the programs    *)
(* the process is running.                                                 *)
(*                                                                         *)
(* Scheduling: both programs run on one asyncio event loop.  A coroutine   *)
(* gives up control only at an await that really suspends: Queue.put on an *)
(* unbounded queue and Queue.get on a non-empty queue never suspend, file  *)
(* writes and the embedding call are synchronous.  Each request handler is *)
(* therefore one atomic action, and the persister, once it runs, drains    *)
(* the queue item by item with nothing in between (saver = "running").     *)
(***************************************************************************)
EXTENDS Integers, Sequences, FiniteSets, TLC

\* ------------------------------------------------------------------ bounds
MaxClock == 2          \* wall-clock instants 0..MaxClock
TicksPerSecond == 2    \* clock instants per wall-clock second
MaxItems == 2          \* artifacts enqueued in one run
MaxSessions == 2       \* successful create_new_session calls in one run
MaxK == 2              \* largest number of results a caller asks for
MaxDigits == 2         \* characters between "hero:" and "%" in a game state
MaxTokens == 2         \* tokens of a decoded model response

\* n_results of the two db.query calls
N_RESULTS_HTTP == 10
N_RESULTS_STREAM == 7

Actors == {"hero", "knight"}
GameTimes == {1, 2}
ImagePayloads == {"ok", "malformed"}
EventDefects == {"none", "no_field", "hp_text"}
BatchSizes == {1, 2}
IOOutcomes == {"ok", "image_error", "meta_error"}
AddPolicies == {"raise", "ignore"}
NoPath == <<>>
QueryTexts == {"hero", "knight"}
RequestedKs == 1..MaxK

VARIABLES
    server,              \* which program runs: "fastapi" | "stream" | "coach"
    MODEL_LOADED,        \* coach: whether load_model() got the model
    now,                 \* wall clock, in instants
    SESSION_FOLDER,      \* current session directory (its timestamp name)
    screenshot_counter,  \* artifact sequence counter
    last_game_time,      \* fastapi: game time of the last snapshot
    screenshot_queue,    \* persister queue: references to enqueued items
    saver,               \* persister task: "waiting" | "ready" | "running"
    heap,                \* the objects the queued items refer to
    db,                  \* the index: id -> metadata
    disk,                \* journal of the persister's write attempts
    sessions,            \* directories returned by create_new_session
    enqueued,            \* number of items put on the queue so far
    born,                \* history: the session each item was enqueued in
    unfinished_tasks,    \* the queue's count of items without task_done()
    conn,                \* stream gateway: the client connection's handler
    reply                \* what the last handler answered

vars == <<server, MODEL_LOADED, now, SESSION_FOLDER, screenshot_counter, last_game_time,
          screenshot_queue, saver, heap, db, disk, sessions, enqueued,
          born, unfinished_tasks, conn, reply>>

sessionVars == <<SESSION_FOLDER, screenshot_counter, last_game_time, sessions>>
queueVars == <<screenshot_queue, saver, heap, enqueued, born, unfinished_tasks>>

\* ---------------------------------------------------------------- helpers
Range(s) == {s[i] : i \in 1..Len(s)}

\* What the last handler answered (or logged), with the request it answered:
\* `batch` is the event batch received or the result list returned.
NoReply ==
    [op |-> "none", status |-> "none", item |-> 0, batch |-> <<>>,
     request |-> <<>>]

Reply(op, status, item) ==
    [op |-> op, status |-> status, item |-> item, batch |-> <<>>,
     request |-> <<>>]

\* the answer to a request whose body the handler has parsed
ReplyTo(r, op, status, item) == [Reply(op, status, item) EXCEPT !.request = r]

\* datetime.now().strftime("%Y-%m-%d %H:%M:%S"): the instant cut to its second
strftime(instant) == instant \div TicksPerSecond

\* directories that exist on disk
dirs == Range(sessions)

\* mutant: put does not wake the getter
wake_lost(s) == s

\* asyncio.Queue.put_nowait: a waiting getter is woken, a woken one stays so
wake(s) == IF s = "waiting" THEN "ready" ELSE s

\* What the caller of the last handler receives.  The HTTP gateway answers
\* every request, with HTTPException(500) when the handler's body raised.
\* The stream gateway sends one thing only, the result list of a query:
\* what its handler drops is printed, what it raises ends the handler.
wire(r) ==
    IF r.op = "none" THEN "nothing"
    ELSE IF server = "fastapi"
         THEN (IF r.status = 500 THEN "error" ELSE "success")
         ELSE (IF r.op = "query" /\ r.status = "sent" THEN "results" ELSE "nothing")

\* ------------------------------------------------------------------- Init
\* State after the module body has run: both programs create their session
\* folder while being imported and start with an empty queue and index.
Init ==
    /\ server \in {"fastapi", "stream"}
    /\ MODEL_LOADED = FALSE
    /\ now = 0
    /\ SESSION_FOLDER = strftime(0)
    /\ screenshot_counter = 0
    /\ last_game_time = 0
    /\ screenshot_queue = <<>>
    /\ saver = "waiting"
    /\ heap = <<>>
    /\ db = {}
    /\ disk = <<>>
    /\ sessions = <<strftime(0)>>
    /\ enqueued = 0
    /\ born = <<>>
    /\ unfinished_tasks = 0
    /\ conn = "open"
    /\ reply = NoReply

\* The wall clock advances.  Only create_new_session reads it into the state
\* (ai_bridge.py reads it for frame_timestamp, which its persister drops).
Tick ==
    /\ server = "fastapi"
    /\ now < MaxClock
    /\ now' = now + 1
    /\ UNCHANGED <<server, MODEL_LOADED, sessionVars, queueVars, db, disk, conn, reply>>

\* --------------------------------------------------------- session manager
\* mutant: a rollover that carries the counter over
create_new_session_keeps_counter(mkdir_ok) ==
    LET folder == strftime(now)
        raises == folder \notin dirs /\ ~mkdir_ok
    IN  /\ SESSION_FOLDER' = folder
        /\ screenshot_counter' = screenshot_counter
        /\ last_game_time' = IF raises THEN last_game_time ELSE 0
        /\ sessions' = IF raises THEN sessions ELSE Append(sessions, folder)

\* create_new_session(): SESSION_FOLDER is assigned first, the directory is
\* made when it does not exist (mkdir_ok: whether os.makedirs succeeds), and
\* only then are the counter and the game time reset.  raised' tells the
\* caller whether the call raised.
create_new_session(mkdir_ok) ==
    LET folder == strftime(now)
        raises == folder \notin dirs /\ ~mkdir_ok
    IN  /\ SESSION_FOLDER' = folder
        /\ screenshot_counter' = IF raises THEN screenshot_counter ELSE 0
        /\ last_game_time' = IF raises THEN last_game_time ELSE 0
        /\ sessions' = IF raises THEN sessions ELSE Append(sessions, folder)

create_raises(mkdir_ok) == strftime(now) \notin dirs /\ ~mkdir_ok

\* POST /new_session
start_new_session ==
    /\ server = "fastapi"
    /\ saver # "running"
    /\ \E mkdir_ok \in BOOLEAN :
          /\ create_raises(mkdir_ok) \/ Len(sessions) < MaxSessions
          /\ create_new_session(mkdir_ok)
          /\ reply' = Reply("new_session",
                            IF create_raises(mkdir_ok) THEN 500 ELSE 200, 0)
    /\ UNCHANGED <<server, MODEL_LOADED, now, queueVars, db, disk, conn>>

\* mutant: every game event opens a new session
rolls_over_always(event_type) == TRUE

\* if event.event_type == "new_game_started"
rolls_over(event_type) == event_type = "new_game_started"

\* POST /game_event
handle_game_event ==
    /\ server = "fastapi"
    /\ saver # "running"
    /\ \E event_type \in {"new_game_started", "other"}, mkdir_ok \in BOOLEAN :
          LET r == [event_type |-> event_type]
          IN
          IF rolls_over(event_type)
          THEN /\ create_raises(mkdir_ok) \/ Len(sessions) < MaxSessions
               /\ create_new_session(mkdir_ok)
               /\ reply' = ReplyTo(r, "game_event",
                                   IF create_raises(mkdir_ok) THEN 500 ELSE 200, 0)
          ELSE /\ reply' = ReplyTo(r, "game_event", 200, 0)
               /\ UNCHANGED sessionVars
    /\ UNCHANGED <<server, MODEL_LOADED, now, queueVars, db, disk, conn>>

\* ---------------------------------------------------------------- the index
\* f"{state['t']}-{state['actor']}"
doc_id(state) == <<state.t, state.actor>>

ids_of(d) == {r.id : r \in d}

\* db.add(ids, embeddings, metadatas) of the index store.  Ids repeated in one
\* call are refused.  An id the collection already holds is refused by some
\* releases of the store and skipped by others: policy names which.
add_raises(d, ids, policy) ==
    \/ \E i, j \in 1..Len(ids) : i # j /\ ids[i] = ids[j]
    \/ policy = "raise" /\ \E i \in 1..Len(ids) : ids[i] \in ids_of(d)

\* the releases differ only when the collection already holds one of the ids
Policies(d, ids) ==
    IF \E i \in 1..Len(ids) : ids[i] \in ids_of(d) THEN AddPolicies ELSE {"ignore"}

db_add(d, ids, metadatas, policy) ==
    IF add_raises(d, ids, policy)
    THEN d
    ELSE d \cup {[id |-> ids[i], meta |-> metadatas[i]] :
                    i \in {k \in 1..Len(ids) : ids[k] \notin ids_of(d)}}

\* ------------------------------------------------------------------ query
\* The distance between the embedding of a query text and the embedding
\* stored with a record: texts about the same actor are close.
distance(text, meta) == IF meta.actor = text THEN 0 ELSE 1

\* The place of a record in the store's ranking for `text`: nearest first,
\* records at the same distance in the store's own order.
sort_key(text, rec) ==
    distance(text, rec.meta) * 8 + rec.meta.t * 2
        + (IF rec.meta.actor = "hero" THEN 0 ELSE 1)

RECURSIVE ranked(_, _)
ranked(text, d) ==
    IF d = {} THEN <<>>
    ELSE LET best == CHOOSE r \in d :
                        \A o \in d : sort_key(text, r) <= sort_key(text, o)
         IN  <<best.meta>> \o ranked(text, d \ {best})

Min(a, b) == IF a <= b THEN a ELSE b

\* db.query(query_embeddings=[vec], n_results=n)['metadatas'][0]: the
\* metadata of the n nearest records, or of all records when there are fewer.
db_query(d, text, n_results) ==
    LET all == ranked(text, d)
    IN  SubSeq(all, 1, Min(n_results, Len(all)))

\* mutant: a store that refuses to return fewer records than were asked for
query_raises_when_short(d, n_results) == Cardinality(d) < n_results

\* db.query with n_results above the number of records: the store lowers
\* n_results to that number and answers; an empty collection is answered with
\* an empty list.
query_raises(d, n_results) == FALSE

\* The bodies of a retrieval request: the text, the number of results the
\* caller would like (a field neither handler reads), and whether
\* embedder.encode returns.
QueryRequests == [query : QueryTexts, k : RequestedKs, embed_ok : BOOLEAN]

\* ---------------------------------------------------------------- persister
\* os.path.join(SESSION_FOLDER, f"snapshot_{screenshot_counter}.png") and
\* ....json of ai_bridge_fastapi.py
image_path(folder, counter) == <<folder, "snapshot", counter, "png">>

\* mutant: the sidecar is named after the counter has been incremented
metadata_path_after_increment(folder, counter) ==
    <<folder, "snapshot", counter + 1, "json">>

metadata_path(folder, counter) == <<folder, "snapshot", counter, "json">>

\* What one pass of the persister's loop body leaves on disk for `item`:
\* the blob unless opening or writing it fails, the sidecar after the blob.
write_item(item, outcome, ipath, mpath) ==
    [item    |-> item,
     session |-> Len(sessions),
     image   |-> IF outcome = "image_error" THEN NoPath ELSE ipath,
     meta    |-> IF outcome = "ok" THEN mpath ELSE NoPath,
     sidecar |-> IF outcome = "ok" THEN heap[item] ELSE <<>>]

\* mutant: the persister takes the newest item (a stack, not a queue)
queue_get_newest(q) == q[Len(q)]

\* asyncio.Queue.get(): the head of the queue
queue_get(q) == Head(q)

\* mutant: the except clause is outside the loop, a failed write ends the task
saver_after_unguarded(q, outcome) ==
    IF outcome # "ok" THEN "dead" ELSE IF q = <<>> THEN "waiting" ELSE "running"

\* where the persister is after an item, written or not: the except clause
\* is inside the while loop, so it keeps the loop while items are queued and
\* suspends in get() on an empty queue
saver_after(q, outcome) == IF q = <<>> THEN "waiting" ELSE "running"

\* mutant: the counter is incremented in a finally clause
next_counter_always(counter, outcome) == counter + 1

\* screenshot_counter += 1 is the last statement of the try block
next_counter(counter, outcome) == IF outcome = "ok" THEN counter + 1 ELSE counter

\* screenshot_saver(), one pass of its while loop (ai_bridge_fastapi.py).
\* A write into a directory that does not exist fails at the first open.
screenshot_saver ==
    /\ server = "fastapi"
    /\ saver \in {"ready", "running"}
    /\ screenshot_queue # <<>>
    /\ \E outcome \in IOOutcomes :
          /\ SESSION_FOLDER \notin dirs => outcome = "image_error"
          /\ LET item == queue_get(screenshot_queue)
                 ipath == image_path(SESSION_FOLDER, screenshot_counter)
                 mpath == metadata_path(SESSION_FOLDER, screenshot_counter)
             IN  /\ disk' = Append(disk, write_item(item, outcome, ipath, mpath))
                 /\ screenshot_counter' = next_counter(screenshot_counter, outcome)
                 /\ unfinished_tasks' =
                       IF outcome = "ok" THEN unfinished_tasks - 1
                                         ELSE unfinished_tasks
                 /\ saver' = saver_after(Tail(screenshot_queue), outcome)
    /\ screenshot_queue' = Tail(screenshot_queue)
    /\ UNCHANGED <<server, MODEL_LOADED, now, SESSION_FOLDER, last_game_time, sessions,
                   heap, db, enqueued, born, conn, reply>>

\* --------------------------------------------------------- snapshot ingest
\* base64.b64decode(snapshot.image.split(',')[1])
\* mutant: a lenient decoder that drops what it cannot read and returns bytes
decode_lenient(image) == FALSE

decode_raises(image) == image # "ok"

CharacterState(t, actor) == [t |-> t, actor |-> actor, pos |-> "list"]

\* ','.join(map(str, state['pos'])); state['pos'] = pos_str
flatten(state) == [state EXCEPT !.pos = "str"]

\* The request bodies of POST /game_state_snapshot: the two states' timestamps
\* and actors, the image payload, and whether embedder.encode returns.
SnapshotRequests ==
    [ht : GameTimes, kt : GameTimes, ha : Actors, ka : Actors,
     image : ImagePayloads, embed_ok : BOOLEAN]

\* the requests of a client that sends the hero and the knight at time 1
PlainSnapshotRequests ==
    {r \in SnapshotRequests :
        r.ht = 1 /\ r.kt = 1 /\ r.ha = "hero" /\ r.ka = "knight"}

\* mutant: one add call per state, the hero's first; a refused knight record
\* leaves the hero record in the index
index_states_each(d, ids, metadatas, embed_ok, policy) ==
    LET refused == {i \in 1..Len(ids) :
                       \/ \E j \in 1..(i - 1) : ids[j] = ids[i]
                       \/ ids[i] \in ids_of(d) /\ policy = "raise"}
        done == {i \in 1..Len(ids) : \A j \in refused : i < j}
    IN  IF ~embed_ok THEN d
        ELSE d \cup {[id |-> ids[i], meta |-> metadatas[i]] :
                        i \in {k \in done : ids[k] \notin ids_of(d)}}

\* The index after step 5 of process_game_state_snapshot(): one db.add call
\* with both states, its embeddings argument evaluated first.
index_states(d, ids, metadatas, embed_ok, policy) ==
    IF ~embed_ok \/ add_raises(d, ids, policy)
    THEN d
    ELSE db_add(d, ids, metadatas, policy)

\* mutant: the queue is given copies of the two dicts, made at the put
item_payload_copied(at_put, at_return) ==
    [hero_state |-> at_put[1].pos, knight_state |-> at_put[2].pos]

\* What the persister finds in a queued item.  The tuple put on the queue
\* refers to the two state dicts themselves (at_put), and the handler goes
\* on, without suspending, to replace their 'pos' in place; the persister
\* runs after the handler has returned and reads them as they are then.
item_payload(at_put, at_return) ==
    [hero_state |-> at_return[1].pos, knight_state |-> at_return[2].pos]

\* the requests of a client that sends the hero and the knight at one game
\* time, which may be earlier than the game time of its last snapshot
TimedSnapshotRequests ==
    {r \in SnapshotRequests :
        /\ r.kt = r.ht /\ r.ha = "hero" /\ r.ka = "knight"
        /\ r.image = "ok" /\ r.embed_ok}

\* process_game_state_snapshot() on a request drawn from `requests`.
\* The queued item holds the two state dicts themselves, which step 4 then
\* changes in place.
ingest_snapshot(requests) ==
    /\ server = "fastapi"
    /\ saver # "running"
    /\ enqueued < MaxItems
    /\ \E r \in requests :
          \E policy \in Policies(db, <<doc_id(CharacterState(r.ht, r.ha)),
                                       doc_id(CharacterState(r.kt, r.ka))>>) :
          LET ht == r.ht
              image == r.image
              embed_ok == r.embed_ok
              hero_state == CharacterState(r.ht, r.ha)
              knight_state == CharacterState(r.kt, r.ka)
              item == enqueued + 1
              states_to_embed == <<flatten(hero_state), flatten(knight_state)>>
              ids == <<doc_id(states_to_embed[1]), doc_id(states_to_embed[2])>>
          IN  /\ last_game_time' = ht
              /\ IF decode_raises(image)
                 THEN /\ reply' = ReplyTo(r, "snapshot", 500, 0)
                      /\ UNCHANGED <<queueVars, db>>
                 ELSE /\ screenshot_queue' = Append(screenshot_queue, item)
                      /\ saver' = wake(saver)
                      /\ enqueued' = item
                      /\ born' = Append(born, [session |-> Len(sessions),
                                               folder |-> SESSION_FOLDER])
                      /\ unfinished_tasks' = unfinished_tasks + 1
                      /\ heap' = Append(heap,
                                        item_payload(<<hero_state, knight_state>>,
                                                     states_to_embed))
                      /\ db' = index_states(db, ids, states_to_embed,
                                             embed_ok, policy)
                      /\ reply' = IF ~embed_ok \/ add_raises(db, ids, policy)
                                  THEN ReplyTo(r, "snapshot", 500, item)
                                  ELSE ReplyTo(r, "snapshot", 200, item)
    /\ UNCHANGED <<server, MODEL_LOADED, now, SESSION_FOLDER, screenshot_counter, sessions,
                   disk, conn>>

\* mutant: the endpoint stores the query next to the events it searches
answer_query_recording(requests) ==
    /\ server = "fastapi"
    /\ saver # "running"
    /\ \E r \in requests :
          IF r.embed_ok /\ ~query_raises(db, N_RESULTS_HTTP)
          THEN /\ reply' = [ReplyTo(r, "query", 200, 0) EXCEPT
                               !.batch = db_query(db, r.query, N_RESULTS_HTTP)]
               /\ db' = db \cup {[id |-> <<0, r.query>>,
                                  meta |-> [t |-> 0, actor |-> r.query,
                                            pos |-> "str"]]}
          ELSE /\ reply' = ReplyTo(r, "query", 500, 0)
               /\ db' = db
    /\ UNCHANGED <<server, MODEL_LOADED, now, sessionVars, queueVars, disk, conn>>

\* query_events() on a request drawn from `requests`: whatever the body
\* raises becomes HTTP 500.
answer_query(requests) ==
    /\ server = "fastapi"
    /\ saver # "running"
    /\ \E r \in requests :
          reply' = IF r.embed_ok /\ ~query_raises(db, N_RESULTS_HTTP)
                   THEN [ReplyTo(r, "query", 200, 0) EXCEPT
                            !.batch = db_query(db, r.query, N_RESULTS_HTTP)]
                   ELSE ReplyTo(r, "query", 500, 0)
    /\ UNCHANGED <<server, MODEL_LOADED, now, sessionVars, queueVars, db, disk, conn>>

\* POST /query
query_events == answer_query(QueryRequests)

\* the requests of a client that asks one question, which is embedded
PlainQueryRequests ==
    {r \in QueryRequests : r.query = "hero" /\ r.k = 1 /\ r.embed_ok}

\* POST /query from a client that sends plain requests only
process_plain_query == answer_query(PlainQueryRequests)

\* ----------------------------------------------------------- stream gateway
\* os.path.join(SESSION_FOLDER, f"screenshot_{screenshot_counter}.png") and
\* ....json of ai_bridge.py
bridge_image_path(folder, counter) == <<folder, "screenshot", counter, "png">>
bridge_metadata_path(folder, counter) == <<folder, "screenshot", counter, "json">>

\* screenshot_saver(queue), one pass of its while loop (ai_bridge.py): get()
\* is outside the try and task_done() runs in the finally.
bridge_screenshot_saver ==
    /\ server = "stream"
    /\ saver \in {"ready", "running"}
    /\ screenshot_queue # <<>>
    /\ \E outcome \in IOOutcomes :
          LET item == queue_get(screenshot_queue)
              ipath == bridge_image_path(SESSION_FOLDER, screenshot_counter)
              mpath == bridge_metadata_path(SESSION_FOLDER, screenshot_counter)
          IN  /\ disk' = Append(disk, write_item(item, outcome, ipath, mpath))
              /\ screenshot_counter' = next_counter(screenshot_counter, outcome)
              /\ saver' = saver_after(Tail(screenshot_queue), outcome)
    /\ unfinished_tasks' = unfinished_tasks - 1
    /\ screenshot_queue' = Tail(screenshot_queue)
    /\ UNCHANGED <<server, MODEL_LOADED, now, SESSION_FOLDER, last_game_time, sessions,
                   heap, db, enqueued, born, conn, reply>>

\* A client opens a connection: websockets.serve starts a handler for it.
connect ==
    /\ server = "stream"
    /\ conn = "closed"
    /\ conn' = "open"
    /\ UNCHANGED <<server, MODEL_LOADED, now, sessionVars, queueVars, db, disk, reply>>

\* handler(): a {type: 'screenshot'} message.  A payload that does not decode
\* or a message without 'metadata' is logged and dropped.
handler_screenshot ==
    /\ server = "stream"
    /\ conn = "open"
    /\ saver # "running"
    /\ enqueued < MaxItems
    /\ \E image \in ImagePayloads, has_metadata \in BOOLEAN :
          LET r == [image |-> image, has_metadata |-> has_metadata]
          IN
          IF decode_raises(image) \/ ~has_metadata
          THEN /\ reply' = ReplyTo(r, "screenshot", "dropped", 0)
               /\ UNCHANGED queueVars
          ELSE /\ screenshot_queue' = Append(screenshot_queue, enqueued + 1)
               /\ saver' = wake(saver)
               /\ enqueued' = enqueued + 1
               /\ born' = Append(born, [session |-> Len(sessions),
                                        folder |-> SESSION_FOLDER])
               /\ unfinished_tasks' = unfinished_tasks + 1
               /\ heap' = Append(heap, [metadata |-> "as_sent"])
               /\ reply' = ReplyTo(r, "screenshot", "queued", enqueued + 1)
    /\ UNCHANGED <<server, MODEL_LOADED, now, sessionVars, db, disk, conn>>

\* An event of a batch: its timestamp, its actor, and what is wrong with it
\* (a required field missing, or an hp that is not a number).
Events == [t : GameTimes, actor : Actors, defect : EventDefects]
Batches == UNION {[1..n -> Events] : n \in BatchSizes}

\* str(e['t'])
event_id(e) == <<e.t>>

\* event['pos'] = ','.join(map(str, event['pos'])): the metadata stored
event_metadata(e) == [t |-> e.t, actor |-> e.actor, pos |-> "str"]

\* the f-string of an event raises on a missing key or a non-numeric hp, and
\* str(e['t']) on a missing t: both run before db.add is called
batch_raises(batch) == \E i \in 1..Len(batch) : batch[i].defect # "none"

\* mutant: the events are added one by one, up to the first that raises
ingest_events_one_by_one(d, batch, embed_ok, policy) ==
    LET bad == {i \in 1..Len(batch) : batch[i].defect # "none"}
        good == {i \in 1..Len(batch) : \A j \in bad : i < j}
    IN  IF ~embed_ok THEN d
        ELSE d \cup {[id |-> event_id(batch[i]), meta |-> event_metadata(batch[i])] :
                        i \in {k \in good : event_id(batch[k]) \notin ids_of(d)}}

\* mutant: each event is embedded and added in turn, until an embedding fails
ingest_events_embed_each(d, batch, embed_ok, policy) ==
    IF batch_raises(batch) THEN d
    ELSE LET n == IF embed_ok THEN Len(batch) ELSE Len(batch) - 1
         IN  db_add(d, [i \in 1..n |-> event_id(batch[i])],
                       [i \in 1..n |-> event_metadata(batch[i])], policy)

\* the index after the list branch of handler() has run on `batch`
ingest_events(d, batch, embed_ok, policy) ==
    IF batch_raises(batch) \/ ~embed_ok
    THEN d
    ELSE db_add(d, [i \in 1..Len(batch) |-> event_id(batch[i])],
                   [i \in 1..Len(batch) |-> event_metadata(batch[i])], policy)

\* how the list branch ends: the first statement that raises, or "added"
events_outcome(d, batch, embed_ok, policy) ==
    IF batch_raises(batch) THEN "raised_format"
    ELSE IF ~embed_ok THEN "raised_embed"
    ELSE IF add_raises(d, [i \in 1..Len(batch) |-> event_id(batch[i])], policy)
         THEN "raised_add"
    ELSE "added"

\* handler(): a JSON list, the event batch.  Nothing catches what this branch
\* raises: the exception ends the handler of the connection.
handler_events ==
    /\ server = "stream"
    /\ conn = "open"
    /\ saver # "running"
    /\ \E batch \in Batches, embed_ok \in BOOLEAN :
          \E policy \in Policies(db, [i \in 1..Len(batch) |-> event_id(batch[i])]) :
          /\ db' = ingest_events(db, batch, embed_ok, policy)
          /\ conn' = IF events_outcome(db, batch, embed_ok, policy) = "added"
                     THEN "open" ELSE "closed"
          /\ reply' = [op |-> "events",
                       status |-> events_outcome(db, batch, embed_ok, policy),
                       item |-> 0, batch |-> batch,
                       request |-> [embed_ok |-> embed_ok]]
    /\ UNCHANGED <<server, MODEL_LOADED, now, sessionVars, queueVars, disk>>

\* handler(): any other message.  Text that is not JSON makes json.loads
\* raise, a JSON scalar makes `'query' in data` raise; a dict that is neither
\* a screenshot nor a query is skipped.
handler_other ==
    /\ server = "stream"
    /\ conn = "open"
    /\ saver # "running"
    /\ \E kind \in {"not_json", "scalar", "unknown_dict"} :
          /\ conn' = IF kind = "unknown_dict" THEN "open" ELSE "closed"
          /\ reply' = Reply("other",
                            IF kind = "unknown_dict" THEN "skipped" ELSE "raised", 0)
    /\ UNCHANGED <<server, MODEL_LOADED, now, sessionVars, queueVars, db, disk>>

\* handler(): a JSON object with a 'query' key.  The result list is sent on
\* the connection; an exception of embedder.encode or db.query ends the
\* handler.
handler_query ==
    /\ server = "stream"
    /\ conn = "open"
    /\ saver # "running"
    /\ \E r \in QueryRequests :
          IF r.embed_ok /\ ~query_raises(db, N_RESULTS_STREAM)
          THEN /\ reply' = [ReplyTo(r, "query", "sent", 0) EXCEPT
                               !.batch = db_query(db, r.query, N_RESULTS_STREAM)]
               /\ conn' = conn
          ELSE /\ reply' = ReplyTo(r, "query", "raised", 0)
               /\ conn' = "closed"
    /\ UNCHANGED <<server, MODEL_LOADED, now, sessionVars, queueVars, db, disk>>

NextStream ==
    \/ connect
    \/ handler_screenshot
    \/ handler_events
    \/ handler_query
    \/ handler_other
    \/ bridge_screenshot_saver

\* POST /game_state_snapshot
process_game_state_snapshot == ingest_snapshot(SnapshotRequests)

\* POST /game_state_snapshot from a client that sends plain requests only
process_plain_snapshot == ingest_snapshot(PlainSnapshotRequests)

NextFastapi ==
    \/ start_new_session
    \/ handle_game_event
    \/ process_game_state_snapshot
    \/ query_events
    \/ screenshot_saver

Next ==
    \/ Tick
    \/ NextFastapi
    \/ NextStream

Spec == Init /\ [][Next]_vars

\* Each program on its own.
InitFastapi == Init /\ server = "fastapi"
InitStream == Init /\ server = "stream"
NextFastapiClock == Tick \/ NextFastapi
SpecFastapi == InitFastapi /\ [][NextFastapiClock]_vars
SpecStream == InitStream /\ [][NextStream]_vars

\* The stream gateway's two pipelines.  The screenshot branch and the
\* persister write queueVars, screenshot_counter and disk; the event branch
\* writes db; they meet only in conn, which handler_other closes as well.
NextStreamPersist ==
    \/ connect
    \/ handler_screenshot
    \/ handler_other
    \/ bridge_screenshot_saver

NextStreamEvents ==
    \/ connect
    \/ handler_events
    \/ handler_other

\* The session manager and the persister of the HTTP gateway.  What the
\* persister does with an item does not depend on the states the snapshot
\* carries, so the clients of this specification send plain requests, with
\* every failure of the handler (payload, embedding, index) still possible.
NextFastapiPersist ==
    \/ Tick
    \/ start_new_session
    \/ handle_game_event
    \/ process_plain_snapshot
    \/ screenshot_saver

\* The index of each program with the handlers that write or read it.  The
\* session manager and the persister are left out: db is created once at
\* import, and neither a rollover nor the persister reads or writes it or
\* answers a request.
NextFastapiIndex ==
    \/ process_game_state_snapshot
    \/ query_events

NextStreamIndex ==
    \/ connect
    \/ handler_events
    \/ handler_query
    \/ handler_other

NextIndex == NextFastapiIndex \/ NextStreamIndex
SpecIndex == Init /\ [][NextIndex]_vars

\* POST /game_state_snapshot from a client whose game clock moves both ways
process_timed_snapshot == ingest_snapshot(TimedSnapshotRequests)

\* The session manager of the HTTP gateway with every handler of the
\* program and the persister.  Whether a handler touches the session does
\* not depend on the text it is asked or on the embedding failing, so the
\* clients of this specification send well-formed requests only.
NextFastapiSession ==
    \/ Tick
    \/ start_new_session
    \/ handle_game_event
    \/ process_timed_snapshot
    \/ process_plain_query
    \/ screenshot_saver

SpecSession == InitFastapi /\ [][NextFastapiSession]_vars

\* the persisters of both programs
NextPersist == NextFastapiPersist \/ NextStreamPersist
SpecPersist == Init /\ [][NextPersist]_vars
\* the event ingestion of the stream gateway
SpecEvents == InitStream /\ [][NextStreamEvents]_vars

\* The event loop runs a task that is ready: the persister, once woken or
\* with items left in its queue, gets its turn.
FairPersist ==
    SpecPersist /\ WF_vars(screenshot_saver) /\ WF_vars(bridge_screenshot_saver)

\* ======================================================== suggestion server
\* ai_model_server.py.  A game state is the text of a request after lower():
\* what stands between "hero:" and the first "%" of the 50 characters that
\* follow it (likewise "knight:", "hero stamina:", "knight stamina:"), and
\* the phrases the rules look for.

\* Python's None for a value that was not parsed
None == -1

\* `if x and ...` on an int or None: None and 0 are false
truthy(v) == v # None /\ v # 0

DigitChars == <<"0", "1", "2", "3", "4", "5", "6", "7", "8", "9">>
isdigit(c) == \E i \in 1..Len(DigitChars) : DigitChars[i] = c
digit_value(c) == (CHOOSE i \in 1..Len(DigitChars) : DigitChars[i] = c) - 1

\* the walk backwards from "%" to the first character that is not a digit:
\* segment[i+1:percent_pos]
RECURSIVE number_str(_)
number_str(chars) ==
    IF chars = <<>> \/ ~isdigit(chars[Len(chars)])
    THEN <<>>
    ELSE Append(number_str(SubSeq(chars, 1, Len(chars) - 1)), chars[Len(chars)])

\* int(number_str)
RECURSIVE int(_)
int(digits) ==
    IF digits = <<>> THEN 0
    ELSE int(SubSeq(digits, 1, Len(digits) - 1)) * Len(DigitChars)
            + digit_value(digits[Len(digits)])

\* A numeric field of the text: whether its prefix occurs, whether a "%"
\* follows within the segment, and the characters between the two.
Absent == [prefix |-> FALSE, percent |-> FALSE, chars |-> <<>>]
Unfinished == [prefix |-> TRUE, percent |-> FALSE, chars |-> <<"2", "0">>]
Written(chars) == [prefix |-> TRUE, percent |-> TRUE, chars |-> chars]

\* extract_percentage(text, prefix)
extract_percentage(field) ==
    IF ~field.prefix \/ ~field.percent THEN None
    ELSE IF number_str(field.chars) = <<>> THEN None
    ELSE int(number_str(field.chars))

\* extract_stamina(text, character): the first pattern is the only one a
\* text can contain (the second is searched for literally, ".*" included)
extract_stamina(field) ==
    IF ~field.prefix \/ ~field.percent THEN None
    ELSE IF number_str(field.chars) = <<>> THEN None
    ELSE int(number_str(field.chars))

\* extract_distance(text)
extract_distance(phrases) ==
    IF "distance: close" \in phrases \/ "close combat" \in phrases THEN "close"
    ELSE IF "distance: medium" \in phrases \/ "medium range" \in phrases THEN "medium"
    ELSE IF "distance: far" \in phrases \/ "far apart" \in phrases THEN "far"
    ELSE "unknown"

\* extract_phase(text)
extract_phase(phrases) ==
    IF "phase: critical" \in phrases \/ "critical phase" \in phrases THEN "critical"
    ELSE IF "phase: mid_game" \in phrases \/ "mid game" \in phrases THEN "mid_game"
    ELSE IF "phase: early_game" \in phrases \/ "early game" \in phrases THEN "early_game"
    ELSE "unknown"

\* the values generate_tactical_suggestion parses before its rules
parsed(gs) ==
    [hero_health     |-> extract_percentage(gs.hero),
     knight_health   |-> extract_percentage(gs.knight),
     hero_stamina    |-> extract_stamina(gs.hero_stamina),
     knight_stamina  |-> extract_stamina(gs.knight_stamina),
     distance        |-> extract_distance(gs.phrases),
     phase           |-> extract_phase(gs.phrases),
     hero_attacking  |-> "hero attacking" \in gs.phrases
                            \/ "hero action: attack" \in gs.phrases,
     knight_attacking |-> "knight attacking" \in gs.phrases
                            \/ "purple attacking" \in gs.phrases,
     hero_blocking   |-> "hero blocking" \in gs.phrases,
     knight_blocking |-> "knight blocking" \in gs.phrases
                            \/ "purple blocking" \in gs.phrases]

\* A suggestion is a sequence of words; every rule's text begins with the
\* question of the prompt.  NoRule: the block returns nothing and the
\* function goes on to the next block.
NoRule == <<>>
Tip(rule, confidence) == <<<<"question", rule>>, confidence>>

\* CRITICAL HEALTH SITUATIONS (Priority 1)
critical_health(p) ==
    IF truthy(p.hero_health) /\ p.hero_health <= 20
    THEN IF truthy(p.hero_stamina) /\ p.hero_stamina > 50
         THEN Tip("critical", "Critical")
         ELSE Tip("dire", "Critical")
    ELSE IF truthy(p.knight_health) /\ p.knight_health <= 25
    THEN IF truthy(p.hero_stamina) /\ p.hero_stamina > 40
         THEN Tip("finish_him", "Critical")
         ELSE Tip("finish_safely", "High")
    ELSE NoRule

\* STAMINA CRISIS MANAGEMENT (Priority 2)
stamina_crisis(p) ==
    IF truthy(p.hero_stamina) /\ p.hero_stamina <= 20
    THEN IF p.distance = "close" /\ p.knight_attacking
         THEN Tip("stamina_crisis", "Critical")
         ELSE Tip("low_stamina", "High")
    ELSE NoRule

\* TACTICAL COMBAT SCENARIOS (Priority 3)
combat_scenarios(p) ==
    IF p.distance = "close"
    THEN IF p.knight_attacking /\ truthy(p.hero_stamina) /\ p.hero_stamina > 30
         THEN IF truthy(p.knight_stamina) /\ p.knight_stamina < 40
              THEN Tip("counter_attack", "High")
              ELSE Tip("under_attack", "High")
         ELSE IF ~p.hero_attacking /\ truthy(p.hero_stamina) /\ p.hero_stamina > 50
         THEN Tip("prime_attack", "High")
         ELSE IF p.hero_blocking /\ truthy(p.knight_stamina) /\ p.knight_stamina < 30
         THEN Tip("perfect_defense", "Medium")
         ELSE NoRule
    ELSE IF p.distance = "medium"
    THEN IF truthy(p.hero_stamina) /\ p.hero_stamina > 60
         THEN Tip("rush_in", "High")
         ELSE IF /\ truthy(p.knight_health) /\ p.knight_health > 70
                 /\ truthy(p.hero_health) /\ p.hero_health < 50
         THEN Tip("hit_and_run", "Medium")
         ELSE Tip("medium_range", "Medium")
    ELSE IF p.distance = "far"
    THEN IF p.phase = "critical"
         THEN Tip("sprint", "High")
         ELSE IF truthy(p.hero_stamina) /\ p.hero_stamina > 80
         THEN Tip("surprise_rush", "High")
         ELSE Tip("too_far", "Medium")
    ELSE NoRule

\* ADVANCED TACTICAL PATTERNS
stamina_patterns(p) ==
    IF truthy(p.hero_stamina) /\ truthy(p.knight_stamina)
    THEN IF p.hero_stamina - p.knight_stamina > 30
         THEN Tip("stamina_advantage", "High")
         ELSE IF p.hero_stamina - p.knight_stamina < -30
         THEN Tip("stamina_disadvantage", "Medium")
         ELSE NoRule
    ELSE NoRule

\* PHASE-SPECIFIC ADVANCED TACTICS
phase_tactics(p) ==
    IF p.phase = "early_game" THEN Tip("early_game", "Medium")
    ELSE IF p.phase = "mid_game"
    THEN IF /\ truthy(p.hero_health) /\ truthy(p.knight_health)
            /\ p.hero_health - p.knight_health < 20
            /\ p.knight_health - p.hero_health < 20
         THEN Tip("even_match", "Medium")
         ELSE NoRule
    ELSE IF p.phase = "critical" THEN Tip("endgame", "Critical")
    ELSE NoRule

\* SITUATIONAL AWARENESS
situational(p) ==
    IF p.knight_blocking /\ truthy(p.hero_stamina) /\ p.hero_stamina > 40
    THEN Tip("enemy_blocking", "Medium")
    ELSE IF ~p.hero_attacking /\ ~p.knight_attacking /\ p.distance = "close"
    THEN Tip("standoff", "Medium")
    ELSE NoRule

\* the blocks of generate_tactical_suggestion in the order they are tried
rule_blocks(p) ==
    <<critical_health(p), stamina_crisis(p), combat_scenarios(p),
      stamina_patterns(p), phase_tactics(p), situational(p)>>

\* the first block that returns
first_rule(blocks) ==
    IF \A i \in 1..Len(blocks) : blocks[i] = NoRule THEN NoRule
    ELSE blocks[CHOOSE i \in 1..Len(blocks) :
                   /\ blocks[i] # NoRule
                   /\ \A j \in 1..(i - 1) : blocks[j] = NoRule]

\* mutant: a rule set without the default analysis returns no text when no
\* rule applies
generate_tactical_suggestion_partial(gs) ==
    IF first_rule(rule_blocks(parsed(gs))) = NoRule
    THEN <<<<>>, "Low">>
    ELSE first_rule(rule_blocks(parsed(gs)))

\* generate_tactical_suggestion(game_state): (suggestion, confidence)
generate_tactical_suggestion(gs) ==
    IF first_rule(rule_blocks(parsed(gs))) = NoRule
    THEN Tip("analyze", "Low")
    ELSE first_rule(rule_blocks(parsed(gs)))

\* ----------------------------------------------------------- primary model
\* A decoded response is a sequence of tokens: the special tokens, the
\* question that ends the prompt, and the words of a tip.  (<|endoftext|>
\* is looked for only where <|end|> is missing, and is then removed like
\* <|end|>; it is left out.)
SpecialTokens == {"<|assistant|>", "<|end|>"}
Tokens == SpecialTokens \cup {"question", "tip", "."}

index_of(tok, seq) ==
    IF \E i \in 1..Len(seq) : seq[i] = tok
    THEN CHOOSE i \in 1..Len(seq) :
            seq[i] = tok /\ \A j \in 1..(i - 1) : seq[j] # tok
    ELSE 0

\* text.split(tok, 1)[-1] and text.split(tok, 1)[0]
after(tok, seq) == SubSeq(seq, index_of(tok, seq) + 1, Len(seq))
before(tok, seq) ==
    IF index_of(tok, seq) = 0 THEN seq ELSE SubSeq(seq, 1, index_of(tok, seq) - 1)

\* where "What's the best tactical move right now?<|end|>" ends in the
\* response, 0 when it does not occur
question_end(seq) ==
    IF \E i \in 1..(Len(seq) - 1) : seq[i] = "question" /\ seq[i + 1] = "<|end|>"
    THEN 1 + CHOOSE i \in 1..(Len(seq) - 1) :
                /\ seq[i] = "question" /\ seq[i + 1] = "<|end|>"
                /\ \A j \in 1..(i - 1) : ~(seq[j] = "question" /\ seq[j + 1] = "<|end|>")
    ELSE 0

\* the replace() calls, strip() and ' '.join(split()): the words that remain
RECURSIVE words(_)
words(seq) ==
    IF seq = <<>> THEN <<>>
    ELSE IF Head(seq) \in SpecialTokens THEN words(Tail(seq))
    ELSE <<Head(seq)>> \o words(Tail(seq))

\* lines 205-238: the text between <|assistant|> and the first <|end|>
\* after it, else the text after the question, cleaned
extract_suggestion(response) ==
    LET tagged == IF index_of("<|assistant|>", response) = 0 THEN <<>>
                  ELSE before("<|end|>", after("<|assistant|>", response))
        raw == IF tagged = <<>> /\ question_end(response) # 0
               THEN SubSeq(response, question_end(response) + 1, Len(response))
               ELSE tagged
    IN  words(raw)

\* mutant: the check of line 241 is missing
degenerate_never(suggestion) == FALSE

\* not suggestion or suggestion.lower() in ["no tip", "no tip.", ".", "!", "?"]
\* (the token "." stands for these five strings)
degenerate(suggestion) == suggestion = <<>> \/ suggestion = <<".">>

\* What model.generate does for one request: it raises, or it returns
\* tokens that decode to a response.  Sampling makes it a choice.
Raising == [raises |-> TRUE, response |-> <<>>]
Responses == UNION {[1..n -> Tokens] : n \in 0..MaxTokens}
ModelOutcomes == {Raising} \cup {[raises |-> FALSE, response |-> t] : t \in Responses}

\* whether generate_model_suggestion(game_state) raises
model_suggestion_raises(loaded, outcome) ==
    \/ ~loaded
    \/ outcome.raises
    \/ degenerate(extract_suggestion(outcome.response))

\* generate_model_suggestion(game_state) when it returns
generate_model_suggestion(outcome) ==
    <<extract_suggestion(outcome.response), "High">>

\* ------------------------------------------------------------- the endpoint
HealthChars == {"0", "2", "."}
HealthTexts == UNION {[1..n -> HealthChars] : n \in 0..MaxDigits}
HeroFields == {Absent, Unfinished} \cup {Written(c) : c \in HealthTexts}

\* the phrases of a game state: none, an attack at close range, the last
\* phase of a match
Situations ==
    {{}, {"distance: close", "knight attacking"}, {"phase: critical"}}

\* the game states of the requests
GameStates ==
    [hero : HeroFields,
     knight : {Absent, Written(<<"2", "0">>)},
     hero_stamina : {Absent, Written(<<"6", "0">>)},
     knight_stamina : {Absent},
     phrases : Situations]

\* the game states of a client that reports the hero's health only
PlainGameStates ==
    {gs \in GameStates :
        /\ gs.hero \in {Absent, Written(<<"2", "0">>)}
        /\ gs.knight = Absent /\ gs.hero_stamina = Absent
        /\ gs.phrases = {}}

\* State after startup_event(): load_model() has set MODEL_LOADED, or left
\* it False when the model directory is missing or loading raised.
InitCoach ==
    /\ server = "coach"
    /\ MODEL_LOADED \in BOOLEAN
    /\ now = 0
    /\ SESSION_FOLDER = strftime(0)
    /\ screenshot_counter = 0
    /\ last_game_time = 0
    /\ screenshot_queue = <<>>
    /\ saver = "waiting"
    /\ heap = <<>>
    /\ db = {}
    /\ disk = <<>>
    /\ sessions = <<strftime(0)>>
    /\ enqueued = 0
    /\ born = <<>>
    /\ unfinished_tasks = 0
    /\ conn = "open"
    /\ reply = NoReply

\* get_ai_suggestion(), POST /ai_suggestion, on a game state drawn from
\* `game_states` while the model behaves as one of `outcomes`.  Nothing in
\* the body raises outside the inner try, so the HTTP 500 of the outer
\* except clause is never answered.
get_ai_suggestion(game_states, outcomes) ==
    /\ server = "coach"
    /\ \E gs \in game_states, outcome \in outcomes :
          LET primary == MODEL_LOADED
                            /\ ~model_suggestion_raises(MODEL_LOADED, outcome)
              result == IF primary THEN generate_model_suggestion(outcome)
                        ELSE generate_tactical_suggestion(gs)
          IN  reply' = [op |-> "ai_suggestion",
                        status |-> 200,
                        suggestion |-> result[1],
                        confidence |-> result[2],
                        model_used |-> IF primary THEN "phi-3.5-fine-tuned"
                                       ELSE "rule-based",
                        request |-> [game_state |-> gs, outcome |-> outcome]]
    /\ UNCHANGED <<server, MODEL_LOADED, now, sessionVars, queueVars, db, disk,
                   conn>>

\* POST /ai_suggestion with plain game states and every model behaviour
plain_ai_suggestion == get_ai_suggestion(PlainGameStates, ModelOutcomes)

\* POST /ai_suggestion with every game state while inference raises
tactical_ai_suggestion == get_ai_suggestion(GameStates, {Raising})

\* The suggestion server.  The rules read the game state only and the
\* primary provider's result does not depend on it, so each side is checked
\* against every input of its own.
SpecCoach == InitCoach /\ [][plain_ai_suggestion]_vars
SpecRules == InitCoach /\ [][tactical_ai_suggestion]_vars

\* ================================================================== claims
\* journal entries of artifacts whose blob, resp. sidecar, was written
Blobs == {k \in 1..Len(disk) : disk[k].image # NoPath}
Sidecars == {k \in 1..Len(disk) : disk[k].meta # NoPath}
folder_of(path) == path[1]
number_of(path) == path[3]

\* C1: an item that is pending in the persister queue when create_new_session
\* runs is written into the session directory that was current before the
\* rollover (the one it was enqueued in), not into the new session's.
C1_PendingItemsKeepTheirSession ==
    \A k \in Blobs : folder_of(disk[k].image) = born[disk[k].item].folder

\* C2: any two calls of create_new_session, however close in time, yield two
\* distinct session directories.
C2_DistinctDirectories ==
    \A i, j \in 1..Len(sessions) : i # j => sessions[i] # sessions[j]

\* C3: no path snapshot_<n>.png or snapshot_<n>.json is ever written for
\* more than one dequeued item.
C3_NoPathWrittenTwice ==
    /\ \A j, k \in Blobs : j # k => disk[j].image # disk[k].image
    /\ \A j, k \in Sidecars : j # k => disk[j].meta # disk[k].meta

\* C4: for every artifact the persister writes, the blob and the sidecar lie
\* in the same session directory and carry the same sequence number, also
\* when a rollover came between the enqueue and the write.
C4_BlobAndSidecarAgree ==
    \A k \in Sidecars :
        /\ disk[k].image # NoPath
        /\ folder_of(disk[k].meta) = folder_of(disk[k].image)
        /\ number_of(disk[k].meta) = number_of(disk[k].image)

\* C4 witness: an artifact was written whole in a session later than the one
\* it was enqueued in (a rollover ran while it was pending).
C4_Witness ==
    \E k \in Sidecars : disk[k].session > born[disk[k].item].session

\* C5: the persister processes items in enqueue order (items are numbered as
\* they are enqueued), and of two artifacts persisted in the same session the
\* one enqueued first has the smaller sequence number.
C5_FifoOrder ==
    /\ \A j, k \in 1..Len(disk) : j < k => disk[j].item < disk[k].item
    /\ \A j, k \in Sidecars :
          (disk[j].item < disk[k].item /\ disk[j].session = disk[k].session)
             => number_of(disk[j].meta) < number_of(disk[k].meta)

\* C5 witness: two artifacts persisted in one session, in either program.
C5_Witness ==
    \E j, k \in Sidecars :
        /\ disk[j].item < disk[k].item
        /\ disk[j].session = disk[k].session

\* the persister has dequeued item i and attempted its write
Attempted(i) == \E k \in 1..Len(disk) : disk[k].item = i

\* C6: a failed write neither stops the persister nor reaches a caller: the
\* persister's step changes no reply and closes no connection, and every item
\* enqueued, before or after a failed one, is eventually dequeued and its
\* write attempted.
C6_FailureIsolated ==
    /\ [][Len(disk') > Len(disk) => (reply' = reply /\ conn' = conn)]_vars
    /\ \A i \in 1..MaxItems : (enqueued >= i) ~> Attempted(i)

\* C6 witness: the write of an item failed and a later item was attempted.
C6_Witness ==
    \E j, k \in 1..Len(disk) : j < k /\ disk[j].meta = NoPath

\* both files of item i are on disk, under one sequence number
PersistedWhole(i) ==
    \E k \in Sidecars :
        /\ disk[k].item = i
        /\ disk[k].image # NoPath
        /\ number_of(disk[k].image) = number_of(disk[k].meta)
WriteFailed(i) == \E k \in 1..Len(disk) : disk[k].item = i /\ disk[k].meta = NoPath

\* C7: when POST /game_state_snapshot returns, no file of the snapshot has
\* been written; and unless its writes fail, eventually both files exist for
\* it with the same sequence number.
C7_ReturnsBeforeFilesExist ==
    /\ [][enqueued' > enqueued =>
            \A k \in 1..Len(disk') : disk'[k].item # enqueued']_vars
    /\ \A i \in 1..MaxItems : (enqueued >= i) ~> (PersistedWhole(i) \/ WriteFailed(i))

\* C7 witness: a snapshot was answered with success and later persisted whole.
C7_Witness ==
    /\ reply.op = "snapshot" /\ reply.status = 200
    /\ PersistedWhole(reply.item)

\* C8: the counter changes only by +1, when the persister has written an
\* artifact whole, or back to 0, in a create_new_session call that returns.
C8_CounterSteps ==
    [][screenshot_counter' # screenshot_counter =>
          \/ /\ screenshot_counter' = screenshot_counter + 1
             /\ Len(disk') = Len(disk) + 1
             /\ disk'[Len(disk')].meta # NoPath
          \/ /\ screenshot_counter' = 0
             /\ Len(sessions') = Len(sessions) + 1]_vars

\* C8 witness: the counter is back at 0 in a session that follows one in which
\* an artifact was persisted.
C8_Witness ==
    /\ screenshot_counter = 0
    /\ \E k \in Sidecars : disk[k].session < Len(sessions)

\* a batch of valid events, pairwise distinct in (timestamp, actor)
ValidBatch(batch) ==
    /\ \A i \in 1..Len(batch) : batch[i].defect = "none"
    /\ \A i, j \in 1..Len(batch) :
          i # j => <<batch[i].t, batch[i].actor>> # <<batch[j].t, batch[j].actor>>

\* C9: after the stream gateway has processed a batch of valid, distinct
\* events (the embedding call having returned), the index holds exactly one
\* record per event of the batch, retrievable by the event's id.
C9_OneRecordPerEvent ==
    (reply.op = "events" /\ reply.status # "raised_embed" /\ ValidBatch(reply.batch))
       => \A i \in 1..Len(reply.batch) :
             /\ Cardinality({r \in db : r.id = event_id(reply.batch[i])}) = 1
             /\ \E r \in db : /\ r.id = event_id(reply.batch[i])
                              /\ r.meta = event_metadata(reply.batch[i])

\* C10: a batch with a malformed event (a required field missing, or an hp
\* that is not a number) leaves the index as it was.
C10_MalformedBatchAddsNothing ==
    [][(reply'.op = "events" /\ batch_raises(reply'.batch)
          /\ conn = "open" /\ conn' = "closed") => db' = db]_vars

\* C10 witness: a batch whose first event is valid and whose second is
\* malformed was refused while the index held records.
C10_Witness ==
    /\ reply.op = "events" /\ reply.status = "raised_format"
    /\ Len(reply.batch) = 2
    /\ reply.batch[1].defect = "none" /\ reply.batch[2].defect # "none"
    /\ db # {}

\* the ids under which a snapshot request's two states are indexed
request_ids(r) ==
    <<doc_id(flatten(CharacterState(r.ht, r.ha))),
      doc_id(flatten(CharacterState(r.kt, r.ka)))>>

\* this step is the snapshot handler answering a request
SnapshotStep == reply' # reply /\ reply'.op = "snapshot"

\* C11: a snapshot whose hero and knight states carry different timestamps
\* is answered with an error, and the step enqueues nothing, writes no file
\* and leaves the index as it was.
C11_MismatchedSnapshotRejected ==
    [][(SnapshotStep /\ reply'.request.ht # reply'.request.kt)
          => /\ reply'.status = 500
             /\ screenshot_queue' = screenshot_queue
             /\ enqueued' = enqueued
             /\ disk' = disk
             /\ db' = db]_vars

\* C12: a snapshot (HTTP) or a screenshot message (stream) whose image
\* payload does not decode is refused: the step enqueues nothing and indexes
\* nothing.
C12_UndecodableImageRefused ==
    [][(reply' # reply /\ reply'.op \in {"snapshot", "screenshot"}
          /\ reply'.request.image = "malformed")
          => /\ reply'.op = "snapshot" => reply'.status = 500
             /\ reply'.op = "screenshot" => reply'.status = "dropped"
             /\ screenshot_queue' = screenshot_queue
             /\ enqueued' = enqueued
             /\ heap' = heap
             /\ db' = db]_vars

\* C12 witness: a snapshot with an undecodable image was refused by a gateway
\* that had accepted and indexed an earlier one.
C12_Witness ==
    /\ reply.op = "snapshot" /\ reply.request.image = "malformed"
    /\ reply.status = 500 /\ reply.item = 0
    /\ enqueued >= 1 /\ db # {}

\* C13: every POST /game_state_snapshot answered with success has enqueued
\* exactly one item and added exactly two records to the index, under the ids
\* "{t}-{actor}" of its hero and knight states.
C13_SuccessAddsOneItemTwoRecords ==
    [][(SnapshotStep /\ reply'.status = 200)
          => /\ enqueued' = enqueued + 1
             /\ screenshot_queue' = Append(screenshot_queue, enqueued')
             /\ Cardinality(db' \ db) = 2
             /\ {rec.id : rec \in db' \ db} = Range(request_ids(reply'.request))]_vars

\* the ids of an event batch, in the order of the add call
batch_ids(batch) == [i \in 1..Len(batch) |-> event_id(batch[i])]

\* the ids of one add call are pairwise distinct and none is in the index
FreshIds(ids, d) ==
    /\ \A i, j \in 1..Len(ids) : i # j => ids[i] # ids[j]
    /\ \A i \in 1..Len(ids) : ids[i] \notin ids_of(d)

\* C14: index ids are unique: every add call a gateway makes, for a snapshot
\* or for an event batch, carries ids that are pairwise distinct and that
\* the index does not hold yet.
C14_AddCallsCarryFreshIds ==
    [][/\ (SnapshotStep /\ reply'.item # 0 /\ reply'.request.embed_ok)
            => FreshIds(request_ids(reply'.request), db)
       /\ (reply' # reply /\ reply'.op = "events"
              /\ reply'.status \in {"raised_add", "added"})
            => FreshIds(batch_ids(reply'.batch), db)]_vars

\* C15: when the embedding call fails for an event batch or for a snapshot,
\* the index is left as it was: no record of the batch is added.
C15_EmbeddingFailureAddsNothing ==
    [][(reply' # reply /\ reply'.op \in {"snapshot", "events"}
          /\ ~reply'.request.embed_ok)
          => db' = db]_vars

\* C15 witness: a batch of two valid events with distinct timestamps, none
\* in the index yet, was refused because the embedding call failed.
C15_Witness ==
    /\ reply.op = "events" /\ reply.status = "raised_embed"
    /\ Len(reply.batch) = 2
    /\ FreshIds(batch_ids(reply.batch), db)

\* this step is a query handler answering a request whose text it embedded
QueryStep == reply' # reply /\ reply'.op = "query" /\ reply'.request.embed_ok

\* C16: a query returns exactly min(k, number of indexed records) metadata
\* entries, k being the number of results the caller asks for.
C16_ReturnsMinOfKAndCount ==
    [][QueryStep
          => Len(reply'.batch) = Min(reply'.request.k, Cardinality(db))]_vars

metadatas_of(d) == {rec.meta : rec \in d}

C19_QueryHasNoSideEffects ==
    [][(reply' # reply /\ reply'.op = "query")
          => /\ db' = db
             /\ SESSION_FOLDER' = SESSION_FOLDER
             /\ sessions' = sessions
             /\ screenshot_counter' = screenshot_counter
             /\ screenshot_queue' = screenshot_queue
             /\ disk' = disk]_vars

\* C19 witness: a query was answered while the index held records and an
\* item waited in the persister queue.
C19_Witness ==
    /\ server = "fastapi"
    /\ reply.op = "query" /\ reply.status = 200
    /\ reply.batch # <<>>
    /\ screenshot_queue # <<>>

\* the last request was an ingestion or a query and its handling failed
Failed(r) ==
    /\ r.op \in {"snapshot", "screenshot", "events", "query"}
    /\ IF server = "fastapi" THEN r.status = 500
       ELSE r.status \in {"dropped", "raised", "raised_format",
                          "raised_embed", "raised_add"}

\* C23: every ingestion or query request that fails is answered to its
\* caller with an explicit failure, by the HTTP gateway and by the stream
\* gateway.
C23_FailuresAreAnswered == Failed(reply) => wire(reply) = "error"

\* C24: the current session directory changes, and the counter is reset,
\* only in a step of POST /new_session or of POST /game_event with
\* event_type new_game_started; snapshots, queries, other game events and
\* the persister leave the directory as it is and never lower the counter.
C24_OnlyRolloverChangesSession ==
    [][(SESSION_FOLDER' # SESSION_FOLDER
          \/ sessions' # sessions
          \/ screenshot_counter' < screenshot_counter)
          => \/ reply'.op = "new_session"
             \/ /\ reply'.op = "game_event"
                /\ reply'.request.event_type = "new_game_started"]_vars

\* C24 witness: in the first session, with artifacts already counted, a
\* snapshot at game time 1 was handled after one at game time 2.
C24_Witness ==
    /\ reply.op = "snapshot" /\ reply.request.ht = 1
    /\ \E rec \in db : rec.meta.t = 2
    /\ Len(sessions) = 1 /\ SESSION_FOLDER = sessions[1]
    /\ screenshot_counter >= 1

\* C25: every sidecar the persister of the HTTP gateway writes holds
\* hero_state and knight_state with the position flattened to a string.
C25_SidecarsHoldFlattenedPositions ==
    server = "fastapi"
       => \A k \in Sidecars :
             /\ disk[k].sidecar.hero_state = "str"
             /\ disk[k].sidecar.knight_state = "str"

\* C25 witness: the sidecar of a snapshot whose handler answered success
\* has been written.
C25_Witness ==
    /\ server = "fastapi"
    /\ reply.op = "snapshot" /\ reply.status = 200
    /\ \E k \in Sidecars : disk[k].item = reply.item

\* C26: a snapshot that POST /game_state_snapshot answered with an error
\* has left no trace: no item of it is in the persister queue and the
\* persister has not attempted to write one.
C26_RejectedSnapshotLeavesNoTrace ==
    (server = "fastapi" /\ reply.op = "snapshot" /\ reply.status = 500)
       => /\ reply.item \notin Range(screenshot_queue)
          /\ ~Attempted(reply.item)

\* this step is a rollover request answered with an error
FailedRolloverStep ==
    /\ reply'.op \in {"new_session", "game_event"}
    /\ reply'.status = 500
    /\ now' = now /\ disk' = disk

\* C27: when create_new_session fails because the directory cannot be
\* created, the current session is as before the call: the directory path
\* and the sequence counter keep their values.
C27_FailedRolloverKeepsSession ==
    [][FailedRolloverStep
          => /\ SESSION_FOLDER' = SESSION_FOLDER
             /\ screenshot_counter' = screenshot_counter]_vars

\* C28: in the stream gateway no message, whatever its processing does,
\* ends the handler of its connection: a connection that is open stays open
\* for the messages that follow.
C28_HandlerSurvivesFailedMessage ==
    [][(server = "stream" /\ conn = "open") => conn' = "open"]_vars

\* the write attempts of the current session that left blob and sidecar
CurrentArtifacts == {k \in Sidecars : disk[k].session = Len(sessions)}

\* C29: the sequence counter equals the number of artifacts fully written
\* since the last create_new_session, and these artifacts are numbered
\* 0..counter-1 without gaps, whatever writes have failed in between.
C29_CounterCountsWholeArtifacts ==
    /\ screenshot_counter = Cardinality(CurrentArtifacts)
    /\ {number_of(disk[k].meta) : k \in CurrentArtifacts}
          = 0..(screenshot_counter - 1)

\* C29 witness: in a session opened by a rollover, a write failed and the
\* write of the next item succeeded.
C29_Witness ==
    /\ Len(sessions) = 2
    /\ \E k, j \in 1..Len(disk) :
          /\ k < j
          /\ disk[k].session = 2 /\ disk[k].meta = NoPath
          /\ j \in CurrentArtifacts


\* ------------------------------------------------------------------- C21
\* the primary provider failed on the request the reply answers: the model
\* was not loaded, inference raised, or the text it produced is empty or
\* nothing but a punctuation mark
PrimaryFailed ==
    \/ ~MODEL_LOADED
    \/ reply.request.outcome.raises
    \/ extract_suggestion(reply.request.outcome.response) \in {<<>>, <<".">>}

C22_AlwaysSuccessWithSuggestion ==
    reply.op = "ai_suggestion"
        => (reply.status = 200 /\ Len(reply.suggestion) > 0)

\* a request with no recognisable field, while inference raises, is answered
\* by the default analysis of the rules
C22_Witness ==
    /\ reply.op = "ai_suggestion"
    /\ MODEL_LOADED
    /\ reply.request.outcome.raises
    /\ reply.request.game_state.hero = Absent
    /\ reply.status = 200
    /\ reply.confidence = "Low"
    /\ Len(reply.suggestion) > 0

\* ------------------------------------------------------------------- C30
\* C30: the rule-based provider returns confidence "Critical" for every
\* game state whose parsed hero health is between 0 and 20 inclusive,
\* whatever the distance, phase, stamina and knight health in the text.
C30_LowHealthIsCritical ==
    (/\ reply.op = "ai_suggestion"
     /\ reply.model_used = "rule-based"
     /\ extract_percentage(reply.request.game_state.hero) \in 0..20)
        => reply.confidence = "Critical"

=============================================================================
